---- MODULE Spec2Model ----
(***************************************************************************)
(* A model of core.py: the node-table constructor NodeDataFrame.__init__,  *)
(* the free functions get_cubic_weight, linterp_1D, get_dist, get_deltas,  *)
(* remove_duplicates and the bucketed nearest-neighbour search knn_coords. *)
(*                                                                         *)
(* Conventions                                                             *)
(*  - A list or a one-column Series is a sequence; a table (DataFrame) is  *)
(*    a sequence of rows <<x, y, z>>; a row is identified by its position. *)
(*  - None and the empty list are both written <<>> where the code only    *)
(*    tests truthiness; scale_length = 0 stands for "not given" (the code  *)
(*    tests `if scale_length:`).                                           *)
(*  - A float is a record: [t |-> "num", n, d] (the rational n/d, d > 0,   *)
(*    in lowest terms), NaN, PInf or NInf.                                 *)
(*  - A square root is kept in fixed point: Sqrt(n) is the integer part of *)
(*    SqrtScale * sqrt(n).                                                 *)
(*  - bucket_leg is kept in half units (twice the code's value), so that   *)
(*    k * scale_length / 2 is exact; Inf is the float infinity that        *)
(*    doubling reaches past LegMax.                                        *)
(***************************************************************************)
EXTENDS Integers, Sequences, FiniteSets, TLC

VARIABLES
    pc,           \* where the running call is: "idle", "knn_while", "knn_rank", "returned"
    df,           \* knn_coords: the caller's table
    k,            \* knn_coords: number of neighbours asked for
    coords,       \* knn_coords: the query point
    scale_length, \* knn_coords: characteristic length, 0 when not given
    bucket,       \* knn_coords: the search bucket, as row positions of df
    bucket_leg,   \* knn_coords: half-width of the cube (in half units), or Inf
    pd_ser,       \* get_cubic_weight: the distances
    node_data,    \* NodeDataFrame: column names of the data
    node_coords,  \* NodeDataFrame: the coordinate specification
    node_units,   \* NodeDataFrame: the units specification
    lst,          \* remove_duplicates / get_deltas: the caller's list
    coords1,      \* get_dist: first list
    coords2,      \* get_dist: second list
    ignore,       \* linterp_1D: the caller's ignore list
    fn,           \* name of the function last called
    ret           \* what the last call returned or raised

vars == <<pc, df, k, coords, scale_length, bucket, bucket_leg, pd_ser,
          node_data, node_coords, node_units, lst, coords1, coords2,
          ignore, fn, ret>>

knnVars == <<df, k, coords, scale_length, bucket, bucket_leg>>
nodeVars == <<node_data, node_coords, node_units>>
seqVars == <<lst, coords1, coords2>>

-----------------------------------------------------------------------------
(* Bounds of the model.                                                    *)

MaxRows == 4
MaxK == 2
MaxL == 3
LegMax == 16
SqrtScale == 100

\* The points a table row is drawn from, and the query points.
Points == {<<0, 0, 0>>, <<1, 0, 0>>, <<3, 0, 0>>, <<0, 2, 0>>, <<2, 2, 2>>}
Queries == {<<0, 0, 0>>, <<1, 0, 0>>, <<2, 1, 1>>}

Tables == UNION {[1..n -> Points] : n \in 1..MaxRows}

-----------------------------------------------------------------------------
(* Helpers.                                                                *)

Min2(a, b) == IF a <= b THEN a ELSE b

Range(s) == {s[i] : i \in 1..Len(s)}

\* the largest r in lo..hi with r * r <= n, by bisection (mid is bound once per step)
RECURSIVE ISqrtBS(_, _, _)
ISqrtBS(n, lo, hi) ==
    IF lo >= hi THEN lo
    ELSE CHOOSE r \in {IF mid * mid <= n THEN ISqrtBS(n, mid, hi) ELSE ISqrtBS(n, lo, mid - 1) :
                        mid \in {(lo + hi + 1) \div 2}} : TRUE

\* x ** (1/2) of a non-negative integer, in fixed point.
Sqrt(n) == ISqrtBS(n * SqrtScale * SqrtScale, 0, (n + 1) * SqrtScale)

-----------------------------------------------------------------------------
(* knn_coords                                                              *)

Inf == -1

\* d < bucket_leg, for an offset d and a leg in half units
LegLess(d, leg) == leg = Inf \/ 2 * d < leg

\* the row mask of the while loop's selection
InCube(row, q, leg) ==
    /\ LegLess(q[1] - row[1], leg) /\ LegLess(row[1] - q[1], leg)
    /\ LegLess(q[2] - row[2], leg) /\ LegLess(row[2] - q[2], leg)
    /\ LegLess(q[3] - row[3], leg) /\ LegLess(row[3] - q[3], leg)

\* df[mask]: the positions of the selected rows, in table order
SelectRows(table, q, leg) ==
    SelectSeq([i \in 1..Len(table) |-> i], LAMBDA i : InCube(table[i], q, leg))

\* bucket_leg *= 2; a leg past LegMax already holds every row of the tables drawn
\* here, as does the float infinity that the doubling ends in
DoubleLeg(leg) ==
    IF leg = Inf \/ 2 * leg > LegMax THEN Inf ELSE 2 * leg

\* the Euclidean distance of one row to the query point
RowDist(row, q) ==
    Sqrt((row[1] - q[1]) * (row[1] - q[1]) + (row[2] - q[2]) * (row[2] - q[2])
         + (row[3] - q[3]) * (row[3] - q[3]))

\* in a stable ascending sort by distance, entry i comes before entry j
SortsBefore(dists, i, j) == dists[i] < dists[j] \/ (dists[i] = dists[j] /\ i < j)

\* sorted(zip(dists, range(len(dists))), key=lambda item: item[0]), as the
\* sequence of the positions it[1]: the p-th is the entry that p - 1 entries precede
SortedPositions(dists) ==
    [p \in 1..Len(dists) |->
        CHOOSE i \in 1..Len(dists) :
            Cardinality({j \in 1..Len(dists) : SortsBefore(dists, j, i)}) = p - 1]

\* the loop test without the slop factor
BucketTooSmall_NoSlop(b, kk) == Len(b) < kk

\* the loop test of the while loop
BucketTooSmall(b, kk) == Len(b) < kk * 2

\* lines 279-289: rank the bucket and return its first k rows (as positions of df)
RankBucket(table, b, q, kk) ==
    LET dists == [i \in 1..Len(b) |-> RowDist(table[b[i]], q)]
        sel == SubSeq(SortedPositions(dists), 1, Min2(kk, Len(b)))
    IN [i \in 1..Len(sel) |-> b[sel[i]]]

\* lines 249-262 and 274: the call up to the while loop, or up to the ranking
knn_coords(kk, q, sl) ==
    /\ pc \in {"idle", "returned"}
    /\ fn' = "knn_coords"
    /\ k' = kk /\ coords' = q /\ scale_length' = sl
    /\ IF sl # 0
       THEN /\ bucket' = <<>>
            /\ bucket_leg' = kk * sl
            /\ pc' = "knn_while"
       ELSE /\ bucket' = [i \in 1..Len(df) |-> i]
            /\ bucket_leg' = 0
            /\ pc' = "knn_rank"
    /\ ret' = <<>>
    /\ UNCHANGED <<df, pd_ser, nodeVars, seqVars, ignore>>

\* lines 266-271: one iteration of the while loop
knn_while_body ==
    /\ pc = "knn_while"
    /\ BucketTooSmall(bucket, k)
    /\ bucket' = SelectRows(df, coords, bucket_leg)
    /\ bucket_leg' = DoubleLeg(bucket_leg)
    /\ UNCHANGED <<pc, df, k, coords, scale_length, pd_ser, nodeVars, seqVars,
                   ignore, fn, ret>>

\* line 266: the loop test fails
knn_while_exit ==
    /\ pc = "knn_while"
    /\ ~BucketTooSmall(bucket, k)
    /\ pc' = "knn_rank"
    /\ UNCHANGED <<knnVars, pd_ser, nodeVars, seqVars, ignore, fn, ret>>

\* lines 279-289
knn_return ==
    /\ pc = "knn_rank"
    /\ ret' = RankBucket(df, bucket, coords, k)
    /\ pc' = "returned"
    /\ UNCHANGED <<knnVars, pd_ser, nodeVars, seqVars, ignore, fn>>

-----------------------------------------------------------------------------
(* Floats: the rationals with NaN and the two infinities.                  *)

NaN == [t |-> "nan", n |-> 0, d |-> 1]
PInf == [t |-> "inf", n |-> 1, d |-> 1]
NInf == [t |-> "inf", n |-> -1, d |-> 1]

Abs(a) == IF a < 0 THEN -a ELSE a

RECURSIVE GCD(_, _)
GCD(a, b) == IF b = 0 THEN a ELSE GCD(b, a % b)

\* the float n/d for integers n and d > 0
Num(n, d) ==
    IF n = 0 THEN [t |-> "num", n |-> 0, d |-> 1]
    ELSE [t |-> "num", n |-> n \div GCD(Abs(n), d), d |-> d \div GCD(Abs(n), d)]

Flt(i) == Num(i, 1)

\* a / b
FDiv(a, b) ==
    IF a.t = "nan" \/ b.t = "nan" THEN NaN
    ELSE IF a.t = "inf" THEN
        IF b.t = "inf" THEN NaN ELSE IF b.n < 0 THEN [a EXCEPT !.n = -a.n] ELSE a
    ELSE IF b.t = "inf" THEN Flt(0)
    ELSE IF b.n = 0 THEN
        IF a.n = 0 THEN NaN ELSE IF a.n > 0 THEN PInf ELSE NInf
    ELSE IF b.n > 0 THEN Num(a.n * b.d, a.d * b.n)
    ELSE Num(-(a.n * b.d), a.d * (-b.n))

\* a + b
FAdd(a, b) ==
    IF a.t = "nan" \/ b.t = "nan" THEN NaN
    ELSE IF a.t = "inf" THEN (IF b.t = "inf" /\ b.n # a.n THEN NaN ELSE a)
    ELSE IF b.t = "inf" THEN b
    ELSE Num(a.n * b.d + b.n * a.d, a.d * b.d)

\* a ** 3
FCube(a) ==
    IF a.t # "num" THEN a ELSE Num(a.n * a.n * a.n, a.d * a.d * a.d)

\* Series.sum(): NaN entries are skipped
RECURSIVE FSumSkipNa(_)
FSumSkipNa(ser) ==
    IF ser = <<>> THEN Flt(0)
    ELSE LET rest == FSumSkipNa(SubSeq(ser, 1, Len(ser) - 1))
             last == ser[Len(ser)]
         IN IF last.t = "nan" THEN rest ELSE FAdd(rest, last)

\* Series.fillna(0)
FillNa0(ser) == [i \in 1..Len(ser) |-> IF ser[i].t = "nan" THEN Flt(0) ELSE ser[i]]

-----------------------------------------------------------------------------
(* get_cubic_weight                                                        *)

MaxDist == 3
MaxSer == 3

SeqsUpTo(S, n) == UNION {[1..m -> S] : m \in 0..n}

\* min(pd_ser) of a non-empty series
SeqMin(ser) == CHOOSE m \in {ser[i] : i \in 1..Len(ser)} : \A i \in 1..Len(ser) : m <= ser[i]

\* weights = (closest / pd_ser) ** 3
CubicRaw(ser) == [i \in 1..Len(ser) |-> FCube(FDiv(Flt(SeqMin(ser)), Flt(ser[i])))]

\* lines 175-177; min() of an empty series raises ValueError
get_cubic_weight_of(ser) ==
    IF ser = <<>> THEN "ValueError"
    ELSE LET weights == CubicRaw(ser)
             total == FSumSkipNa(weights)
         IN FillNa0([i \in 1..Len(ser) |-> FDiv(weights[i], total)])

get_cubic_weight ==
    /\ pc \in {"idle", "returned"}
    /\ fn' = "get_cubic_weight"
    /\ ret' = get_cubic_weight_of(pd_ser)
    /\ pc' = "returned"
    /\ UNCHANGED <<knnVars, pd_ser, nodeVars, seqVars, ignore>>

-----------------------------------------------------------------------------
(* NodeDataFrame.__init__                                                  *)
(*                                                                         *)
(* node_data is [kind, names]: a dict or a DataFrame with its column       *)
(* names (lines 27-30); data of another type is not modelled.              *)
(* node_units is [kind, keys]: "none", a "dict" with its keys, a "list"    *)
(* with one entry per unit, or "other" (a truthy value of another type).   *)
(* node_coords is [kind, keys, vals]: a "dict" with keys and values, a     *)
(* list of "names" (keys), a list of "bools" (vals), or "other".  A value  *)
(* is "True", "False" or "1" (not a bool).                                 *)
(* The outcome is [status, columns, coord, units]: status "ok" or the name *)
(* of the exception raised.                                                *)

MaxCols == 2
MaxCoords == 2

_connect_col == "_connections"

Raised(exc) == [status |-> exc, columns |-> <<>>, coord |-> <<>>, units |-> <<>>]

\* lines 38-59: the units as a dict (its keys), or the exception raised
UnitsOutcome(columns, units) ==
    IF units.kind = "none" \/ (units.kind \in {"dict", "list"} /\ units.keys = <<>>)
    THEN [status |-> "ok", keys |-> <<>>]
    ELSE IF units.kind = "dict" THEN
        IF \E i \in 1..Len(units.keys) : units.keys[i] \notin Range(columns)
        THEN [status |-> "Warning", keys |-> <<>>]
        ELSE [status |-> "ok", keys |-> units.keys]
    ELSE IF units.kind = "list" THEN
        IF Len(units.keys) # Len(columns)
        THEN [status |-> "Warning", keys |-> <<>>]
        ELSE [status |-> "ok", keys |-> columns]
    ELSE [status |-> "Warning", keys |-> <<>>]

\* lines 66-77: what the loop over a coordinate dict does at entry i
DictEntryCheck(columns, c, i) ==
    IF c.vals[i] \notin {"True", "False"} THEN "ValueError"
    ELSE IF Len(c.keys) > Len(columns) THEN "ValueError"
    ELSE IF c.keys[i] \notin Range(columns) THEN "Warning"
    ELSE "ok"

\* lines 92-100 with the length test raising ValueError
BoolListOutcome_ValueError(columns, c) ==
    IF c.vals # <<>> /\ Len(c.vals) # Len(columns)
    THEN [status |-> "ValueError", flags |-> <<>>]
    ELSE IF c.vals = <<>> THEN [status |-> "IndexError", flags |-> <<>>]
    ELSE [status |-> "ok", flags |-> [i \in 1..Len(columns) |-> <<columns[i], c.vals[i]>>]]

\* lines 81 and 92-100: a list of bools; coords[0] of an empty list raises IndexError
BoolListOutcome(columns, c) ==
    IF c.vals = <<>> \/ Len(c.vals) # Len(columns)
    THEN [status |-> "IndexError", flags |-> <<>>]
    ELSE [status |-> "ok", flags |-> [i \in 1..Len(columns) |-> <<columns[i], c.vals[i]>>]]

\* lines 63-106: the coordinate flags as <<column, flag>> pairs, or the exception raised
CoordsOutcome(columns, c) ==
    IF c.kind = "dict" THEN
        IF \E i \in 1..Len(c.keys) : DictEntryCheck(columns, c, i) # "ok"
        THEN LET first == CHOOSE i \in 1..Len(c.keys) :
                              /\ DictEntryCheck(columns, c, i) # "ok"
                              /\ \A j \in 1..(i - 1) : DictEntryCheck(columns, c, j) = "ok"
             IN [status |-> DictEntryCheck(columns, c, first), flags |-> <<>>]
        ELSE [status |-> "ok", flags |-> [i \in 1..Len(c.keys) |-> <<c.keys[i], c.vals[i]>>]]
    ELSE IF c.kind = "names" THEN
        IF c.keys = <<>> THEN [status |-> "IndexError", flags |-> <<>>]
        ELSE IF \E i \in 1..Len(c.keys) : c.keys[i] \notin Range(columns)
        THEN [status |-> "Warning", flags |-> <<>>]
        ELSE [status |-> "ok",
              flags |-> [i \in 1..Len(columns) |->
                            <<columns[i], IF columns[i] \in Range(c.keys) THEN "True" ELSE "False">>]]
    ELSE IF c.kind = "bools" THEN BoolListOutcome(columns, c)
    ELSE [status |-> "TypeError", flags |-> <<>>]

\* lines 24-116
NodeDataFrame_of(data, c, units) ==
    LET columns == data.names
        u == UnitsOutcome(columns, units)
        co == CoordsOutcome(columns, c)
    IN IF columns = <<>> THEN Raised("ValueError")
       ELSE IF u.status # "ok" THEN Raised(u.status)
       ELSE IF co.status # "ok" THEN Raised(co.status)
       ELSE [status |-> "ok",
             columns |-> IF _connect_col \in Range(columns) THEN columns
                         ELSE Append(columns, _connect_col),
             coord |-> co.flags,
             units |-> u.keys]

NodeDataFrame ==
    /\ pc \in {"idle", "returned"}
    /\ fn' = "NodeDataFrame"
    /\ ret' = NodeDataFrame_of(node_data, node_coords, node_units)
    /\ pc' = "returned"
    /\ UNCHANGED <<knnVars, pd_ser, nodeVars, seqVars, ignore>>

-----------------------------------------------------------------------------
(* remove_duplicates, get_deltas, get_dist                                 *)

MaxLen == 3
MaxVal == 2

\* the loop of lines 294-296 with the membership test against the last kept element only
RECURSIVE remove_duplicates_adjacent(_)
remove_duplicates_adjacent(l) ==
    IF l = <<>> THEN <<>>
    ELSE LET unique == remove_duplicates_adjacent(SubSeq(l, 1, Len(l) - 1))
             ii == l[Len(l)]
         IN IF unique # <<>> /\ unique[Len(unique)] = ii THEN unique ELSE Append(unique, ii)

\* lines 293-297: unique after the loop has run over l
RECURSIVE remove_duplicates_of(_)
remove_duplicates_of(l) ==
    IF l = <<>> THEN <<>>
    ELSE LET unique == remove_duplicates_of(SubSeq(l, 1, Len(l) - 1))
             ii == l[Len(l)]
         IN IF ii \in Range(unique) THEN unique ELSE Append(unique, ii)

remove_duplicates ==
    /\ pc \in {"idle", "returned"}
    /\ fn' = "remove_duplicates"
    /\ ret' = remove_duplicates_of(lst)
    /\ pc' = "returned"
    /\ UNCHANGED <<knnVars, pd_ser, nodeVars, seqVars, ignore>>

\* lines 217-224; del deltas[0] of an empty list raises IndexError
get_deltas_of(iterable) ==
    LET offset == <<0>> \o iterable
        deltas == [i \in 1..Min2(Len(offset), Len(iterable)) |-> iterable[i] - offset[i]]
    IN IF deltas = <<>> THEN "IndexError" ELSE Tail(deltas)

get_deltas ==
    /\ pc \in {"idle", "returned"}
    /\ fn' = "get_deltas"
    /\ ret' = get_deltas_of(lst)
    /\ pc' = "returned"
    /\ UNCHANGED <<knnVars, pd_ser, nodeVars, seqVars, ignore>>

\* a zip that pads the shorter list with zeros
ZipLongest(a, b) ==
    [i \in 1..(IF Len(a) >= Len(b) THEN Len(a) ELSE Len(b)) |->
        <<IF i <= Len(a) THEN a[i] ELSE 0, IF i <= Len(b) THEN b[i] ELSE 0>>]

\* zip(a, b): stops at the end of the shorter list
Zip(a, b) == [i \in 1..Min2(Len(a), Len(b)) |-> <<a[i], b[i]>>]

\* lines 204-205
RECURSIVE SumOfSquares(_)
SumOfSquares(deltas) ==
    IF deltas = <<>> THEN 0
    ELSE SumOfSquares(SubSeq(deltas, 1, Len(deltas) - 1))
         + deltas[Len(deltas)] * deltas[Len(deltas)]

\* lines 198-207
get_dist_of(c1, c2) ==
    LET pairs == Zip(c1, c2)
        deltas == [i \in 1..Len(pairs) |-> pairs[i][2] - pairs[i][1]]
    IN Sqrt(SumOfSquares(deltas))

get_dist ==
    /\ pc \in {"idle", "returned"}
    /\ fn' = "get_dist"
    /\ ret' = get_dist_of(coords1, coords2)
    /\ pc' = "returned"
    /\ UNCHANGED <<knnVars, pd_ser, nodeVars, seqVars, ignore>>

-----------------------------------------------------------------------------
(* linterp_1D                                                              *)
(*                                                                         *)
(* A Series is a function from its labels to integers.                     *)

MaxIgnore == 3

Labels == {"x", "a"}
SeriesSet == UNION {[S -> 0..1] : S \in (SUBSET Labels) \ {{}}}

\* lines 150-153: the list the function works with
IgnoreLocal(ign, colname) == IF ign # <<>> THEN Append(ign, colname) ELSE <<colname>>

\* lines 150-151: the caller's list after the call
IgnoreAfter(ign, colname) == IF ign # <<>> THEN Append(ign, colname) ELSE ign

\* lines 155-170; .loc of a missing label raises KeyError
linterp_1D_of(series1, series2, colname, coord, ign) ==
    LET datcols == {col \in DOMAIN series1 :
                        col \notin Range(IgnoreLocal(ign, colname)) /\ col \in DOMAIN series2}
    IN IF colname \notin DOMAIN series1 \/ colname \notin DOMAIN series2 THEN "KeyError"
       ELSE [col \in datcols |->
                FAdd(Flt(series1[col]),
                     FDiv(Flt((coord - series1[colname]) * (series2[col] - series1[col])),
                          Flt(series2[colname] - series1[colname])))]

linterp_1D(series1, series2, colname, coord) ==
    /\ pc \in {"idle", "returned"}
    /\ Len(ignore) < MaxIgnore
    /\ fn' = "linterp_1D"
    /\ ignore' = IgnoreAfter(ignore, colname)
    /\ ret' = linterp_1D_of(series1, series2, colname, coord, ignore)
    /\ pc' = "returned"
    /\ UNCHANGED <<knnVars, pd_ser, nodeVars, seqVars>>

-----------------------------------------------------------------------------
(* Specifications.  Each starts from the caller's objects, drawn from      *)
(* bounded sets, and applies the functions of one group to them.           *)

KnnFrame ==
    k = 1 /\ coords = <<0, 0, 0>> /\ scale_length = 0 /\ bucket = <<>> /\ bucket_leg = 0

NoNode ==
    /\ node_data = [kind |-> "dict", names |-> <<>>]
    /\ node_coords = [kind |-> "other", keys |-> <<>>, vals |-> <<>>]
    /\ node_units = [kind |-> "none", keys |-> <<>>]

NoCall == pc = "idle" /\ fn = "none" /\ ret = <<>>

\* knn_coords on a table
InitKnn ==
    /\ NoCall /\ KnnFrame /\ NoNode
    /\ df \in Tables
    /\ pd_ser = <<>> /\ lst = <<>> /\ coords1 = <<>> /\ coords2 = <<>> /\ ignore = <<>>

NextKnn ==
    \/ \E kk \in 1..MaxK, q \in Queries, sl \in 0..MaxL : knn_coords(kk, q, sl)
    \/ knn_while_body
    \/ knn_while_exit
    \/ knn_return

SpecKnn == InitKnn /\ [][NextKnn]_vars

\* a call that has started always takes its next step; the caller need not call again
FairSpecKnn ==
    InitKnn /\ [][NextKnn]_vars
    /\ WF_vars(knn_while_body) /\ WF_vars(knn_while_exit) /\ WF_vars(knn_return)

\* get_cubic_weight on a series of distances
InitWeight ==
    /\ NoCall /\ KnnFrame /\ NoNode
    /\ df = <<>>
    /\ pd_ser \in SeqsUpTo(0..MaxDist, MaxSer)
    /\ lst = <<>> /\ coords1 = <<>> /\ coords2 = <<>> /\ ignore = <<>>

SpecWeight == InitWeight /\ [][get_cubic_weight]_vars

\* the sequences without repetition, of length at most n, over S
DistinctSeqs(S, n) ==
    {q \in SeqsUpTo(S, n) : \A i, j \in 1..Len(q) : i # j => q[i] # q[j]}

ColumnNames == {"x", "y", _connect_col}
CoordNames == {"x", "y", "w"}
CoordVals == {"True", "False", "1"}

DataArgs == [kind : {"dict", "DataFrame"}, names : DistinctSeqs(ColumnNames, MaxCols)]

UnitsArgs ==
    {[kind |-> "none", keys |-> <<>>], [kind |-> "other", keys |-> <<>>]}
    \cup [kind : {"dict"}, keys : DistinctSeqs({"x", "w"}, MaxCols)]
    \cup [kind : {"list"}, keys : SeqsUpTo({"m"}, MaxCols)]

CoordsArgs ==
    {[kind |-> "other", keys |-> <<>>, vals |-> <<>>]}
    \cup {[kind |-> "dict", keys |-> ks, vals |-> vs] :
            <<ks, vs>> \in {p \in DistinctSeqs(CoordNames, MaxCoords) \X SeqsUpTo(CoordVals, MaxCoords) :
                               Len(p[1]) = Len(p[2])}}
    \cup [kind : {"names"}, keys : SeqsUpTo(CoordNames, MaxCoords), vals : {<<>>}]
    \cup [kind : {"bools"}, keys : {<<>>}, vals : SeqsUpTo({"True", "False"}, MaxCoords + 1)]

\* NodeDataFrame construction
InitNode ==
    /\ NoCall /\ KnnFrame
    /\ df = <<>>
    /\ node_data \in DataArgs
    /\ node_coords \in CoordsArgs
    /\ node_units \in UnitsArgs
    /\ pd_ser = <<>> /\ lst = <<>> /\ coords1 = <<>> /\ coords2 = <<>> /\ ignore = <<>>

SpecNode == InitNode /\ [][NodeDataFrame]_vars

\* remove_duplicates and get_deltas on a list
InitList ==
    /\ NoCall /\ KnnFrame /\ NoNode
    /\ df = <<>>
    /\ lst \in SeqsUpTo(0..MaxVal, MaxLen)
    /\ pd_ser = <<>> /\ coords1 = <<>> /\ coords2 = <<>> /\ ignore = <<>>

NextList == remove_duplicates \/ get_deltas

SpecList == InitList /\ [][NextList]_vars

\* get_dist on two lists
InitDist ==
    /\ NoCall /\ KnnFrame /\ NoNode
    /\ df = <<>>
    /\ coords1 \in SeqsUpTo(0..MaxVal, MaxLen)
    /\ coords2 \in SeqsUpTo(0..MaxVal, MaxLen)
    /\ pd_ser = <<>> /\ lst = <<>> /\ ignore = <<>>

SpecDist == InitDist /\ [][get_dist]_vars

\* any sequence of calls of the free functions on the caller's objects
InitCalls ==
    /\ NoCall /\ KnnFrame /\ NoNode
    /\ df \in {t \in Tables : Len(t) = 2 /\ t[1] = <<0, 0, 0>>}
    /\ ignore \in {<<>>, <<"a">>}
    /\ lst \in {<<1, 1>>, <<2, 0, 2>>}
    /\ coords1 = <<0, 0>>
    /\ coords2 = <<1, 2, 2>>
    /\ pd_ser = <<>>

NextCalls ==
    \/ \E s1 \in SeriesSet, colname \in Labels, coord \in 0..1 :
           linterp_1D(s1, [l \in Labels |-> 1], colname, coord)
    \/ get_deltas
    \/ remove_duplicates
    \/ get_dist
    \/ \E kk \in 1..MaxK, sl \in {0, MaxL} : knn_coords(kk, <<0, 0, 0>>, sl)
    \/ knn_while_body
    \/ knn_while_exit
    \/ knn_return

SpecCalls == InitCalls /\ [][NextCalls]_vars

-----------------------------------------------------------------------------
(* Properties of knn_coords.                                               *)

\* squared Euclidean distance of row i of df to the query point
D2(i) ==
    (df[i][1] - coords[1]) * (df[i][1] - coords[1])
    + (df[i][2] - coords[2]) * (df[i][2] - coords[2])
    + (df[i][3] - coords[3]) * (df[i][3] - coords[3])

\* rows is n rows of cand, nearest first, and no row of cand left out is
\* strictly closer to the query point than a row of rows
NearestOf(rows, cand, n) ==
    /\ Len(rows) = n
    /\ Range(rows) \subseteq cand
    /\ \A i, j \in 1..Len(rows) : i < j => rows[i] # rows[j] /\ D2(rows[i]) <= D2(rows[j])
    /\ \A r \in cand \ Range(rows) : \A s \in Range(rows) : D2(s) <= D2(r)

KnnReturned == pc = "returned" /\ fn = "knn_coords"

RECURSIVE Pow2(_)
Pow2(j) == IF j = 0 THEN 1 ELSE 2 * Pow2(j - 1)

\* the rows whose three offsets lie strictly between -h and h, h = (k*L/2) * 2^j
CubeRows(j) ==
    {i \in 1..Len(df) :
        \A a \in 1..3 : /\ 2 * (df[i][a] - coords[a]) < k * scale_length * Pow2(j)
                        /\ 2 * (df[i][a] - coords[a]) > -(k * scale_length * Pow2(j))}

\* C1 as stated: for 1 <= k <= row count, with or without a characteristic
\* length, the call returns the k rows of the whole table nearest to the query
\* point, nearest first.
C1_NearestOfTable ==
    (KnnReturned /\ k <= Len(df)) => NearestOf(ret, 1..Len(df), k)

\* without a characteristic length the whole table is ranked, and the returned
\* rows are its k nearest, nearest first
KnnExactWithoutLength ==
    (KnnReturned /\ k <= Len(df) /\ scale_length = 0) => NearestOf(ret, 1..Len(df), k)

\* C2: when k exceeds the row count the call returns, with every row of the
\* table sorted ascending by distance, whether or not a characteristic length
\* is given.
C2_CapReturnsAll ==
    (pc \in {"knn_while", "knn_rank"} /\ k > Len(df))
        ~> (KnnReturned /\ NearestOf(ret, 1..Len(df), Len(df)))

\* C3: with a characteristic length given, the bucket-growing loop terminates
\* and the call returns.
C3_LoopTerminates == (pc = "knn_while") ~> (pc = "returned")

\* C10: with a characteristic length L, the bucket that is ranked is exactly the
\* set of rows inside the cube of half-width (k*L/2) * 2^j for the smallest j at
\* which that set has at least 2k rows.
C10_BucketIsFirstCube ==
    (pc \in {"knn_rank", "returned"} /\ fn = "knn_coords" /\ scale_length # 0) =>
        \E j \in 0..LegMax :
            /\ Range(bucket) = CubeRows(j)
            /\ Len(bucket) = Cardinality(CubeRows(j))
            /\ Cardinality(CubeRows(j)) >= 2 * k
            /\ \A i \in 0..(j - 1) : Cardinality(CubeRows(i)) < 2 * k

\* a call that returned after at least one retry, leaving rows outside the cube
C10_Witness ==
    /\ KnnReturned /\ scale_length # 0
    /\ Cardinality(CubeRows(0)) < 2 * k
    /\ Len(bucket) < Len(df)

-----------------------------------------------------------------------------
(* Properties of get_cubic_weight.                                         *)

Returned(f) == pc = "returned" /\ fn = f

RECURSIVE SumOver(_, _)
SumOver(f, S) ==
    IF S = {} THEN Flt(0)
    ELSE LET i == CHOOSE j \in S : TRUE IN FAdd(f[i], SumOver(f, S \ {i}))

HasZeroAndPositive(ser) ==
    (\E i \in 1..Len(ser) : ser[i] = 0) /\ (\E i \in 1..Len(ser) : ser[i] > 0)

\* C4: for distances with at least one zero and one positive value, every zero
\* distance gets weight 0, the other weights sum to 1, and no weight is NaN or
\* infinite.
C4_ZeroDistanceWeights ==
    (Returned("get_cubic_weight") /\ HasZeroAndPositive(pd_ser)) =>
        /\ \A i \in 1..Len(pd_ser) : ret[i].t = "num"
        /\ \A i \in 1..Len(pd_ser) : pd_ser[i] = 0 => ret[i] = Flt(0)
        /\ SumOver(ret, {i \in 1..Len(pd_ser) : pd_ser[i] # 0}) = Flt(1)

-----------------------------------------------------------------------------
(* Properties of NodeDataFrame.                                            *)

\* a coordinate specification in one of the three forms, with nothing wrong
\* but, possibly, names that are not columns
AcceptedCoords(c, columns) ==
    \/ /\ c.kind = "dict"
       /\ \A i \in 1..Len(c.vals) : c.vals[i] \in {"True", "False"}
       /\ Len(c.keys) <= Len(columns)
    \/ c.kind = "names" /\ c.keys # <<>>
    \/ c.kind = "bools" /\ Len(c.vals) = Len(columns)

NamedCoords(c) == IF c.kind \in {"dict", "names"} THEN Range(c.keys) ELSE {}

UnitsAccepted == UnitsOutcome(node_data.names, node_units).status = "ok"

\* C5: with a coordinate specification in one of the three accepted forms,
\* construction is not rejected and every named coordinate is a column of the
\* table, a name missing from the input columns being appended.
C5_NamedCoordsExist ==
    (/\ Returned("NodeDataFrame")
     /\ node_data.names # <<>>
     /\ UnitsAccepted
     /\ AcceptedCoords(node_coords, node_data.names)) =>
        /\ ret.status = "ok"
        /\ NamedCoords(node_coords) \subseteq Range(ret.columns)

BoolListMismatch ==
    node_coords.kind = "bools" /\ Len(node_coords.vals) # Len(node_data.names)

\* C6 as stated: a list of bools whose length differs from the number of
\* columns makes construction fail with a ValueError.
C6_MismatchValueError ==
    (Returned("NodeDataFrame") /\ BoolListMismatch) => ret.status = "ValueError"

\* C6 amended: a list of bools whose length differs from the number of columns
\* makes construction fail, and no table is produced; the exception is an
\* IndexError whenever a column is named and the units are accepted (a
\* ValueError only without any column, a Warning only for rejected units).
C6_MismatchIndexError ==
    (Returned("NodeDataFrame") /\ BoolListMismatch) =>
        /\ ret.status # "ok"
        /\ ret.columns = <<>>
        /\ (node_data.names # <<>> /\ UnitsAccepted) => ret.status = "IndexError"
        /\ ret.status = "ValueError" => node_data.names = <<>>
        /\ ret.status = "Warning" => ~UnitsAccepted

\* a non-empty list of bools, too long for the named columns, units accepted
C6_Witness ==
    /\ Returned("NodeDataFrame") /\ BoolListMismatch
    /\ node_data.names # <<>> /\ UnitsAccepted
    /\ Len(node_coords.vals) > Len(node_data.names)
    /\ ret.status = "IndexError"

-----------------------------------------------------------------------------
(* Properties of remove_duplicates and get_dist.                           *)

\* the position of the first occurrence of v in l
FirstAt(l, v) == CHOOSE i \in 1..Len(l) : l[i] = v /\ \A j \in 1..(i - 1) : l[j] # v

\* C7: remove_duplicates returns each distinct value of its input exactly once,
\* in the order of first occurrence.
C7_DistinctInFirstOrder ==
    Returned("remove_duplicates") =>
        /\ Range(ret) = Range(lst)
        /\ \A i, j \in 1..Len(ret) : i < j =>
               /\ ret[i] # ret[j]
               /\ FirstAt(lst, ret[i]) < FirstAt(lst, ret[j])

\* an input whose repeated value is separated by another value
C7_Witness ==
    /\ Returned("remove_duplicates")
    /\ Len(lst) = 3 /\ lst[1] = lst[3] /\ lst[1] # lst[2]
    /\ Len(ret) = 2

\* the sum of the squared differences of the components i in S
RECURSIVE SquaredDiffs(_)
SquaredDiffs(S) ==
    IF S = {} THEN 0
    ELSE LET i == CHOOSE j \in S : TRUE
         IN (coords2[i] - coords1[i]) * (coords2[i] - coords1[i]) + SquaredDiffs(S \ {i})

\* r is the square root of n, in fixed point
IsSqrt(r, n) ==
    /\ r >= 0
    /\ r * r <= n * SqrtScale * SqrtScale
    /\ (r + 1) * (r + 1) > n * SqrtScale * SqrtScale

\* C9: for lists of lengths m and n, get_dist raises nothing and returns the
\* Euclidean distance over the first min(m, n) components only.
C9_DistOverShorter ==
    Returned("get_dist") =>
        /\ ret \in Nat
        /\ IsSqrt(ret, SquaredDiffs(1..Min2(Len(coords1), Len(coords2))))

\* lists of different lengths, at a positive distance, the longer one with a
\* non-zero component past the end of the shorter
C9_Witness ==
    /\ Returned("get_dist")
    /\ Len(coords1) < Len(coords2)
    /\ coords2[Len(coords2)] # 0
    /\ ret > 0

-----------------------------------------------------------------------------
(* Properties of any sequence of calls.                                    *)

\* C8: no call changes an argument object of the caller: the table, the lists
\* given to remove_duplicates, get_deltas and get_dist, and the ignore list
\* given to linterp_1D hold the same value after the call as before.
C8_ArgumentsUnchanged ==
    [][/\ df' = df
       /\ lst' = lst
       /\ coords1' = coords1
       /\ coords2' = coords2
       /\ ignore' = ignore]_vars

====
